---------------------------- MODULE Spec2Model ----------------------------
(***************************************************************************)
(* A model of lpsd(x, windowfcn, fmin, fmax, Jdes, Kdes, Kmin, fs, xi) of  *)
(* src/lpsd.py: one call, from the argument checks to the return.          *)
(*                                                                         *)
(* Floating-point values are held exactly, as pairs <<n, d>> standing for  *)
(* n/d in lowest terms with d > 0; <<0,0>> is NaN, <<1,0>> is +inf and     *)
(* <<-1,0>> is -inf, the values numpy produces on a division by zero. The  *)
(* square root of equation (18) is held by its radicand (rppSq), and the   *)
(* complex exponential of equation (6) is tabulated at sixteenths of a     *)
(* turn; the demodulated samples are held to two decimals.                 *)
(*                                                                         *)
(* Lines 130, 134 and 139 of the source are written with Matlab's          *)
(* bsxfun(@op, a, b), and line 138 indexes with m(jj), L(jj). They are     *)
(* read as what they denote: the broadcast of op over a column (one entry  *)
(* per sample of a segment) and a row (one entry per segment), and the     *)
(* elements m[jj], L[jj]. np.mean, np.sum, np.round, np.floor, np.arange   *)
(* are numpy's.                                                            *)
(***************************************************************************)
EXTENDS Integers, Sequences, FiniteSets, TLC

VARIABLES x, windowfcn, fmin, fmax, Jdes, Kdes, Kmin, fs, xi,
          pc, err, N, f, rp, ravg, rmin, case1, case2, case3, rppSq,
          L, r, m, Pxx, S1, S2, todo, jj, D, K, data, window, C, ret,
          wcalls

inputs == <<x, windowfcn, fmin, fmax, Jdes, Kdes, Kmin, fs, xi>>
plan   == <<N, f, rp, ravg, rmin, case1, case2, case3, rppSq, L, r, m>>
slots  == <<Pxx, S1, S2>>
locals == <<D, K, data, window>>
vars   == <<inputs, pc, err, plan, slots, todo, jj, locals, C, ret, wcalls>>

---------------------------------------------------------------------------
(* Bounds of the model. *)
MaxJdes == 3
MaxF    == 8

---------------------------------------------------------------------------
(* Floating-point values. *)
Abs(a) == IF a < 0 THEN -a ELSE a
Sgn(a) == IF a < 0 THEN -1 ELSE IF a = 0 THEN 0 ELSE 1

RECURSIVE GCD(_, _)
GCD(a, b) == IF b = 0 THEN a ELSE GCD(b, a % b)

Norm(n, d) ==
    IF d = 0 THEN <<Sgn(n), 0>>
    ELSE LET g == GCD(Abs(n), Abs(d))
         IN  <<Sgn(d) * Sgn(n) * (Abs(n) \div g), Abs(d) \div g>>

Rat(n, d) == Norm(n, d)
I(n)      == <<n, 1>>
NaN       == <<0, 0>>
Inf       == <<1, 0>>
IsNaN(a)    == a[1] = 0 /\ a[2] = 0
IsFinite(a) == a[2] # 0

FMul(a, b) ==
    IF a[2] = 0 \/ b[2] = 0 THEN Norm(a[1] * b[1], a[2] * b[2])
    ELSE LET g == GCD(Abs(a[1]), b[2])
             h == GCD(Abs(b[1]), a[2])
         IN  Norm(Sgn(a[1]) * (Abs(a[1]) \div g) * Sgn(b[1]) * (Abs(b[1]) \div h),
                  (a[2] \div h) * (b[2] \div g))
FInv(a)    == Norm(a[2], a[1])
FDiv(a, b) == FMul(a, FInv(b))
FNeg(a)    == <<-a[1], a[2]>>
FAdd(a, b) ==
    IF a[2] = 0 /\ b[2] = 0
    THEN (IF a[1] = b[1] THEN a ELSE NaN)
    ELSE IF a[2] = 0 \/ b[2] = 0 THEN Norm(a[1] * b[2] + b[1] * a[2], 0)
    ELSE LET g == GCD(a[2], b[2])
         IN  Norm(a[1] * (b[2] \div g) + b[1] * (a[2] \div g), (a[2] \div g) * b[2])
FSub(a, b) == FAdd(a, FNeg(b))

\* IEEE comparisons: every comparison with a NaN is false.
FLt(a, b) ==
    /\ ~IsNaN(a) /\ ~IsNaN(b)
    /\ IF a[2] # 0 /\ b[2] # 0 THEN a[1] * b[2] < b[1] * a[2]
       ELSE (IF a[2] = 0 THEN a[1] ELSE 0) < (IF b[2] = 0 THEN b[1] ELSE 0)
FEq(a, b) == ~IsNaN(a) /\ ~IsNaN(b) /\ a = b
FLe(a, b) == FLt(a, b) \/ FEq(a, b)
FGt(a, b) == FLt(b, a)
FGe(a, b) == FLe(b, a)

\* floor of a finite value, as an integer
FloorInt(a) == a[1] \div a[2]
\* np.floor: non-finite values pass through
FFloor(a) == IF IsFinite(a) THEN I(FloorInt(a)) ELSE a
\* np.round of a finite value: to the nearest integer, halves to the even one
RoundInt(a) ==
    LET fl   == FloorInt(a)
        twoR == 2 * (a[1] - fl * a[2])      \* twice the remainder, over a[2]
    IN  IF twoR < a[2] THEN fl
        ELSE IF twoR > a[2] THEN fl + 1
        ELSE IF fl % 2 = 0 THEN fl ELSE fl + 1

---------------------------------------------------------------------------
(* The inputs of a call. *)
WindowFcns == {"ones", "ramp"}
XLens      == {0, 8, 16}
FsVals     == {0, 16}
KVals      == {I(0), Rat(1, 2), I(1), I(4)}
XiVals     == {Rat(-1, 4), I(0), Rat(1, 2), I(1)}

\* The records of the model: n samples of a fixed integer sequence.
XSample(i) == ((i * i + i) % 7) - 3
XSeries(n) == [i \in 0 .. n - 1 |-> XSample(i)]


Empty == <<>>

\* Arrays are functions on 0 .. n-1, as in the source.
len(a) == Cardinality(DOMAIN a)

---------------------------------------------------------------------------
(* exp and log, lines 85-87. g = log(fmax) - log(fmin) is held by          *)
(* exp(g) = fmax/fmin; exp(e*g) for a rational e = p/q is the p-th power   *)
(* of the q-th root of fmax/fmin.                                          *)
RECURSIVE Pow(_, _)
Pow(b, n) == IF n = 0 THEN I(1) ELSE FMul(b, Pow(b, n - 1))

Roots(q, n) == {b \in {Rat(a, c) : a \in 1 .. q[1], c \in 1 .. q[2]} : Pow(b, n) = q}
Root(q, n)  == CHOOSE b \in Roots(q, n) : TRUE

ExpG(e) ==
    IF IsNaN(e) THEN NaN
    ELSE IF ~IsFinite(e) THEN (IF e[1] > 0 THEN Inf ELSE I(0))
    ELSE Pow(Root(Rat(fmax, fmin), e[2]), e[1])

\* The inputs whose grid is rational, so that the model holds it exactly.
GridExact(lo, hi, J) ==
    IF J <= 2 \/ hi <= lo THEN TRUE ELSE Roots(Rat(hi, lo), J - 1) # {}

---------------------------------------------------------------------------
(* Lines 59-75: the argument checks, in the order of the source. The value *)
(* is the kind of the exception raised, "" when every check passes.        *)
\* The checks with the upper end of xi's interval closed.
ArgErrorXiClosed ==
    IF windowfcn \notin WindowFcns THEN "TypeError"
    ELSE IF ~(fmax > fmin) THEN "ValueError"
    ELSE IF ~(Jdes > 0) THEN "ValueError"
    ELSE IF ~FGt(Kdes, I(0)) THEN "ValueError"
    ELSE IF ~FGt(Kmin, I(0)) THEN "ValueError"
    ELSE IF ~FGe(Kdes, Kmin) THEN "ValueError"
    ELSE IF ~(fs > 0) THEN "ValueError"
    ELSE IF ~(FLe(I(0), xi) /\ FLe(xi, I(1))) THEN "ValueError"
    ELSE ""

ArgError ==
    IF windowfcn \notin WindowFcns THEN "TypeError"
    ELSE IF ~(fmax > fmin) THEN "ValueError"
    ELSE IF ~(Jdes > 0) THEN "ValueError"
    ELSE IF ~FGt(Kdes, I(0)) THEN "ValueError"
    ELSE IF ~FGt(Kmin, I(0)) THEN "ValueError"
    ELSE IF ~FGe(Kdes, Kmin) THEN "ValueError"
    ELSE IF ~(fs > 0) THEN "ValueError"
    ELSE IF ~(FLe(I(0), xi) /\ FLt(xi, I(1))) THEN "ValueError"
    ELSE ""

\* raise kind(template.format(args)): str.format raises IndexError when the
\* template has more replacement fields than it is given arguments.
Raise(kind, fields, args) == IF args < fields THEN "IndexError" ELSE kind

\* Lines 80-83, for a record of n > 0 samples.
RangeError(n) ==
    IF ~FGe(I(fmin), Rat(fs, n)) THEN Raise("ValueError", 2, 1)
    ELSE IF ~FLe(I(fmax), Rat(fs, 2)) THEN Raise("ValueError", 2, 2)
    ELSE ""

TypeOK == pc \in {"start", "range", "grid", "resolve", "segment", "alloc", "loop",
                  "count", "detrend", "dft", "average", "calib", "return",
                  "done", "error"}

Init ==
    /\ windowfcn \in WindowFcns \cup {"notcallable"}
    /\ fs \in FsVals
    /\ \E n \in XLens : x = XSeries(n)
    /\ fmin \in 1 .. 2
    /\ fmax \in 1 .. MaxF
    /\ Jdes \in 0 .. MaxJdes
    /\ GridExact(fmin, fmax, Jdes)
    /\ Kdes \in KVals
    /\ Kmin \in KVals
    /\ xi \in XiVals
    /\ pc = "start" /\ err = ""
    /\ N = 0 /\ f = Empty /\ rp = Empty /\ ravg = I(0) /\ rmin = I(0)
    /\ case1 = Empty /\ case2 = Empty /\ case3 = Empty /\ rppSq = Empty
    /\ L = Empty /\ r = Empty /\ m = Empty
    /\ Pxx = Empty /\ S1 = Empty /\ S2 = Empty
    /\ todo = {} /\ jj = 0
    /\ D = 0 /\ K = I(0) /\ data = Empty /\ window = Empty
    /\ C = Empty /\ ret = Empty /\ wcalls = 0

Fail(kind) ==
    /\ pc' = "error"
    /\ err' = kind

\* Lines 59-75.
Validate ==
    /\ pc = "start"
    /\ IF ArgError # "" THEN Fail(ArgError) ELSE pc' = "range" /\ err' = err
    /\ UNCHANGED <<inputs, plan, slots, todo, jj, locals, C, ret, wcalls>>

\* Lines 77-83. float(fs) / N raises ZeroDivisionError for an empty record.
RangeCheck ==
    /\ pc = "range"
    /\ N' = len(x)
    /\ IF len(x) = 0 THEN Fail("ZeroDivisionError")
       ELSE IF RangeError(len(x)) # "" THEN Fail(RangeError(len(x)))
       ELSE pc' = "grid" /\ err' = err
    /\ UNCHANGED <<inputs, f, rp, ravg, rmin, case1, case2, case3, rppSq, L, r, m,
                   slots, todo, jj, locals, C, ret, wcalls>>


\* Lines 85-87: the logarithmic grid (13) and the desired resolutions (15).
\* float(Jdes - 1) is 0.0 for Jdes = 1, and numpy divides by it.
GridF(j)  == FMul(I(fmin), ExpG(FDiv(I(j), I(Jdes - 1))))
GridRp(j) == FMul(GridF(j), FSub(ExpG(FDiv(I(1), I(Jdes - 1))), I(1)))

Grid ==
    /\ pc = "grid"
    /\ f'  = [j \in 0 .. Jdes - 1 |-> GridF(j)]
    /\ rp' = [j \in 0 .. Jdes - 1 |-> GridRp(j)]
    /\ pc' = "resolve"
    /\ UNCHANGED <<inputs, err, N, ravg, rmin, case1, case2, case3, rppSq, L, r, m,
                   slots, todo, jj, locals, C, ret, wcalls>>

\* Lines 93-94: (16) and (17).
Ravg == FMul(Rat(fs, N), FAdd(I(1), FMul(FSub(I(1), xi), FSub(Kdes, I(1)))))
Rmin == FMul(Rat(fs, N), FAdd(I(1), FMul(FSub(I(1), xi), FSub(Kmin, I(1)))))

\* np.sqrt(a) > b, for b >= 0
SqrtGt(a, b) == FGe(a, I(0)) /\ FGt(a, FMul(b, b))

\* Lines 96-101: the three masks of (18).
Case1(j) == FGe(rp[j], Ravg)
\* The second mask without its first conjunct.
Case2NoUpper(j) == SqrtGt(FMul(Ravg, rp[j]), Rmin)
Case2(j) == FLt(rp[j], Ravg) /\ SqrtGt(FMul(Ravg, rp[j]), Rmin)
Case3(j) == ~(Case1(j) \/ Case2(j))

\* a[mask] = vals[mask]
MaskAssign(a, mask, vals) == [j \in DOMAIN a |-> IF mask[j] THEN vals[j] ELSE a[j]]

\* Lines 103-107. rppSq[j] is the square of rpp[j].
Resolve ==
    LET c1 == [j \in 0 .. Jdes - 1 |-> Case1(j)]
        c2 == [j \in 0 .. Jdes - 1 |-> Case2(j)]
        c3 == [j \in 0 .. Jdes - 1 |-> Case3(j)]
        z  == [j \in 0 .. Jdes - 1 |-> I(0)]
        a1 == MaskAssign(z,  c1, [j \in 0 .. Jdes - 1 |-> FMul(rp[j], rp[j])])
        a2 == MaskAssign(a1, c2, [j \in 0 .. Jdes - 1 |-> FMul(Ravg, rp[j])])
        a3 == MaskAssign(a2, c3, [j \in 0 .. Jdes - 1 |-> FMul(Rmin, Rmin)])
    IN  /\ pc = "resolve"
        /\ ravg' = Ravg /\ rmin' = Rmin
        /\ case1' = c1 /\ case2' = c2 /\ case3' = c3
        /\ rppSq' = a3
        /\ pc' = "segment"
        /\ UNCHANGED <<inputs, err, N, f, rp, L, r, m, slots, todo, jj, locals, C,
                       ret, wcalls>>

\* The largest n with n * n * den <= num, searched upward from n.
RECURSIVE FloorSqrt(_, _, _)
FloorSqrt(num, den, n) ==
    IF (n + 1) * (n + 1) * den > num THEN n ELSE FloorSqrt(num, den, n + 1)

\* np.round(a / sqrt(q)) for an integer a >= 0 and q = q[1]/q[2] > 0
RoundDivSqrt(a, q) ==
    LET num == a * a * q[2]
        fl  == FloorSqrt(num, q[1], 0)
        h   == (2 * fl + 1) * (2 * fl + 1) * q[1]
    IN  IF 4 * num > h THEN fl + 1
        ELSE IF 4 * num < h THEN fl
        ELSE IF fl % 2 = 0 THEN fl ELSE fl + 1

\* Line 112: segment lengths (19).
SegLen(j) == RoundDivSqrt(fs, rppSq[j])

\* Lines 112-114.
Segment ==
    LET l == [j \in 0 .. Jdes - 1 |-> SegLen(j)]
        a == [j \in 0 .. Jdes - 1 |-> FDiv(I(fs), I(l[j]))]
    IN  /\ pc = "segment"
        /\ L' = l
        /\ r' = a
        /\ m' = [j \in 0 .. Jdes - 1 |-> FDiv(f[j], a[j])]
        /\ pc' = "alloc"
        /\ UNCHANGED <<inputs, err, N, f, rp, ravg, rmin, case1, case2, case3, rppSq,
                       slots, todo, jj, locals, C, ret, wcalls>>

\* Lines 117-119: np.empty leaves the arrays uninitialised.
Junk == {I(0), NaN}
Alloc ==
    /\ pc = "alloc"
    /\ \E a \in Junk :
          /\ Pxx' = [j \in 0 .. Jdes - 1 |-> a]
          /\ S1'  = [j \in 0 .. Jdes - 1 |-> a]
          /\ S2'  = [j \in 0 .. Jdes - 1 |-> a]
    /\ todo' = 0 .. len(f) - 1
    /\ pc' = "loop"
    /\ UNCHANGED <<inputs, err, plan, jj, locals, C, ret, wcalls>>


---------------------------------------------------------------------------
(* The loop over frequencies, lines 123-146. *)
RECURSIVE SumTo(_, _)
\* a[0] + ... + a[n-1]
SumTo(a, n) == IF n = 0 THEN I(0) ELSE FAdd(SumTo(a, n - 1), a[n - 1])
Sum(a) == SumTo(a, len(a))

Min(S) == CHOOSE a \in S : \A b \in S : a <= b

\* Line 126: the hop between segment starts (2).
HopSize(j) == RoundInt(FMul(FSub(I(1), xi), I(L[j])))
\* Line 127: the number of segments (3); float(D) may be 0.0.
SegCount(j) == FFloor(FAdd(FDiv(I(N - L[j]), I(HopSize(j))), I(1)))

\* np.arange(k) for a finite k
Arange(k) == 0 .. FloorInt(k) - 1

\* Lines 130-131: data[n][k] = x[n + D*k], one column k per segment.
Gather(j, d, k) == [n \in 0 .. L[j] - 1 |-> [c \in Arange(k) |-> I(x[n + d * c])]]

\* np.sum(a) and np.mean(a) of a two-dimensional array, with no axis given:
\* over all of its elements.
SumAll(a)  == Sum([n \in DOMAIN a |-> Sum(a[n])])
SizeAll(a) == IF DOMAIN a = {} THEN 0 ELSE len(a) * len(a[0])
MeanAll(a) == FDiv(SumAll(a), I(SizeAll(a)))

\* Line 134.
Detrended(a) ==
    LET mu == MeanAll(a)
    IN  [n \in DOMAIN a |-> [c \in DOMAIN a[n] |-> FSub(a[n][c], mu)]]

\* windowfcn(n): the callables of the model, a rectangular and a ramp window.
Window(w, n) == [i \in 0 .. n - 1 |-> IF w = "ones" THEN I(1) ELSE I(i + 1)]

\* The model's precision: values of the transform are held to two decimals.
Quant(a) == IF IsFinite(a) THEN Rat(RoundInt(FMul(a, I(100))), 100) ELSE a

\* cos(2*pi*k/16) in hundredths
Cos16(k) == <<100, 92, 71, 38, 0, -38, -71, -92,
              -100, -92, -71, -38, 0, 38, 71, 92>>[(k % 16) + 1]
\* np.exp(-2j * np.pi * t), as <<re, im>>
Cis(t) ==
    IF ~IsFinite(t) THEN <<NaN, NaN>>
    ELSE LET k == FloorInt(FMul(I(16), t))
         IN  <<Rat(Cos16(k), 100), Rat(-Cos16(k + 12), 100)>>

\* Line 138 (6).
Sinusoid(j) == [n \in 0 .. L[j] - 1 |-> Cis(FDiv(FMul(I(n), m[j]), I(L[j])))]

\* Line 139: every column times sinusoid * window.
Demodulated(a, sn, w) ==
    LET sw == [n \in DOMAIN a |-> <<FMul(sn[n][1], w[n]), FMul(sn[n][2], w[n])>>]
    IN  [n \in DOMAIN a |-> [c \in DOMAIN a[n] |->
            <<Quant(FMul(a[n][c], sw[n][1])), Quant(FMul(a[n][c], sw[n][2]))>>]]

\* Line 142: np.mean(np.abs(np.sum(data)) ** 2). np.sum has no axis, so it
\* is one complex number, and the mean of its squared magnitude is itself.
Power(a) ==
    LET re == SumAll([n \in DOMAIN a |-> [c \in DOMAIN a[n] |-> a[n][c][1]]])
        im == SumAll([n \in DOMAIN a |-> [c \in DOMAIN a[n] |-> a[n][c][2]]])
    IN  FAdd(FMul(re, re), FMul(im, im))

\* a[:] = v
SlotFill(a, j, v) == [i \in DOMAIN a |-> v]
\* a[j] = v
SlotWrite(a, j, v) == [a EXCEPT ![j] = v]

\* Line 123, an index taken, and the loop's exit.
Take(j) ==
    /\ jj' = j
    /\ todo' = todo \ {j}
    /\ pc' = "count"
    /\ UNCHANGED <<inputs, err, plan, slots, locals, C, ret, wcalls>>

LoopNext ==
    /\ pc = "loop" /\ todo # {}
    /\ Take(Min(todo))

\* The indices in any order.
LoopAny ==
    /\ pc = "loop" /\ todo # {}
    /\ \E j \in todo : Take(j)

LoopExit ==
    /\ pc = "loop" /\ todo = {}
    /\ pc' = "calib"
    /\ UNCHANGED <<inputs, err, plan, slots, todo, jj, locals, C, ret, wcalls>>

\* Lines 126-131. np.arange raises for a K that is not finite (ValueError or
\* OverflowError, by the numpy version).
Count ==
    /\ pc = "count"
    /\ D' = HopSize(jj)
    /\ K' = SegCount(jj)
    /\ IF IsFinite(SegCount(jj))
       THEN /\ data' = Gather(jj, HopSize(jj), SegCount(jj))
            /\ pc' = "detrend" /\ err' = err
       ELSE /\ \E e \in {"ValueError", "OverflowError"} : Fail(e)
            /\ data' = data
    /\ UNCHANGED <<inputs, plan, slots, todo, jj, window, C, ret, wcalls>>

\* Line 134.
Detrend ==
    /\ pc = "detrend"
    /\ data' = Detrended(data)
    /\ pc' = "dft"
    /\ UNCHANGED <<inputs, err, plan, slots, todo, jj, D, K, window, C, ret, wcalls>>

\* Lines 137-139.
Dft ==
    /\ pc = "dft"
    /\ window' = Window(windowfcn, L[jj])
    /\ wcalls' = wcalls + 1
    /\ data' = Demodulated(data, Sinusoid(jj), Window(windowfcn, L[jj]))
    /\ pc' = "average"
    /\ UNCHANGED <<inputs, err, plan, slots, todo, jj, D, K, C, ret>>

\* Lines 142-146.
Average ==
    /\ pc = "average"
    /\ Pxx' = SlotWrite(Pxx, jj, Power(data))
    /\ S1'  = SlotWrite(S1, jj, Sum(window))
    /\ S2'  = SlotWrite(S2, jj, Sum([i \in DOMAIN window |-> FMul(window[i], window[i])]))
    /\ pc' = "loop"
    /\ UNCHANGED <<inputs, err, plan, todo, jj, locals, C, ret, wcalls>>

\* Lines 149-152: the calibration factors (28), (29).
Calibrate ==
    /\ pc = "calib"
    /\ C' = [PS  |-> [j \in DOMAIN S1 |-> FDiv(I(2), FMul(S1[j], S1[j]))],
             PSD |-> [j \in DOMAIN S2 |-> FDiv(I(2), FMul(I(fs), S2[j]))]]
    /\ pc' = "return"
    /\ UNCHANGED <<inputs, err, plan, slots, todo, jj, locals, ret, wcalls>>

\* Line 154: return Pxx, f
Return ==
    /\ pc = "return"
    /\ ret' = <<Pxx, f>>
    /\ pc' = "done"
    /\ UNCHANGED <<inputs, err, plan, slots, todo, jj, locals, C, wcalls>>

Next ==
    \/ Validate \/ RangeCheck \/ Grid \/ Resolve \/ Segment \/ Alloc
    \/ LoopNext \/ LoopExit \/ Count \/ Detrend \/ Dft \/ Average
    \/ Calibrate \/ Return
Spec == Init /\ [][Next]_vars

\* The same call with the loop's indices taken in any order.
NextAny ==
    \/ Validate \/ RangeCheck \/ Grid \/ Resolve \/ Segment \/ Alloc
    \/ LoopAny \/ LoopExit \/ Count \/ Detrend \/ Dft \/ Average
    \/ Calibrate \/ Return
SpecAny == Init /\ [][NextAny]_vars

---------------------------------------------------------------------------
(* Properties. *)

\* Some constraint on the arguments is violated.
BadArgs ==
    \/ windowfcn \notin WindowFcns
    \/ fmax <= fmin
    \/ Jdes <= 0
    \/ FLe(Kdes, I(0))
    \/ FLe(Kmin, I(0))
    \/ FLt(Kdes, Kmin)
    \/ fs <= 0
    \/ FLt(xi, I(0))
    \/ FGe(xi, I(1))

\* C1: a call with a violated argument constraint does nothing but fail: it
\* is at its start or has ended in a TypeError or ValueError, no grid,
\* resolution or segment length has been computed, windowfcn has not been
\* called and nothing is returned.
C1_BadArgsFailFirst ==
    BadArgs =>
        /\ pc \in {"start", "error"}
        /\ pc = "error" => err \in {"TypeError", "ValueError"}
        /\ N = 0 /\ f = Empty /\ rp = Empty /\ rppSq = Empty /\ L = Empty
        /\ Pxx = Empty /\ wcalls = 0 /\ ret = Empty

\* A call whose only violated constraint is xi = 1 has failed.
C1_Witness ==
    /\ pc = "error" /\ err = "ValueError"
    /\ xi = I(1)
    /\ windowfcn \in WindowFcns /\ fmax > fmin /\ Jdes > 0 /\ fs > 0
    /\ FGt(Kmin, I(0)) /\ FGe(Kdes, Kmin)

\* C2: with valid arguments and fmin < fs/N, the call fails with the error
\* kind of the range checks, the ValueError raised for fmax > fs/2.
C2_LowFminRangeError ==
    (~BadArgs /\ len(x) > 0 /\ FLt(I(fmin), Rat(fs, len(x))) /\ pc = "error")
        => err = "ValueError"

\* C3: every segment length is between 1 and N (for whole numbers of
\* averages Kdes, Kmin).
C3_SegLenInRange ==
    (Kdes[2] = 1 /\ Kmin[2] = 1) =>
        \A j \in DOMAIN L : 1 <= L[j] /\ L[j] <= N

\* C4: for every index exactly one of the three cases of (18) fires, case 1
\* being rp >= ravg and case 2 being rp < ravg and sqrt(ravg*rp) > rmin;
\* rpp is rp, sqrt(ravg*rp) or rmin by that case, and rpp >= rmin.
C4_OneCaseSetsRpp ==
    \A j \in DOMAIN rppSq :
        /\ case1[j] <=> FGe(rp[j], ravg)
        /\ case2[j] <=> (FLt(rp[j], ravg) /\ FGt(FMul(ravg, rp[j]), FMul(rmin, rmin)))
        /\ case3[j] <=> ~(case1[j] \/ case2[j])
        /\ Cardinality({c \in {1, 2, 3} : <<case1[j], case2[j], case3[j]>>[c]}) = 1
        /\ case1[j] => rppSq[j] = FMul(rp[j], rp[j])
        /\ case2[j] => rppSq[j] = FMul(ravg, rp[j])
        /\ case3[j] => rppSq[j] = FMul(rmin, rmin)
        /\ FGe(rppSq[j], FMul(rmin, rmin))

\* A resolved call in which case 1 fires for one index and case 2 for another.
C4_Witness ==
    /\ pc = "segment"
    /\ \E i, j \in DOMAIN rppSq : case1[i] /\ case2[j]

\* The segmentation of index j is degenerate.
Degenerate(j) ==
    \/ L[j] < 1 \/ L[j] > N
    \/ HopSize(j) < 1
    \/ ~FGe(SegCount(j), I(1))

\* C5: a call with a degenerate segmentation at some index fails; it does
\* not return.
C5_DegenerateFails ==
    (pc = "done" /\ Jdes > 1) => \A j \in DOMAIN L : ~Degenerate(j)

\* C6: a successful call returns Pxx, f and the calibration mapping C, with
\* C.PS[j] = 2/S1[j]^2 and C.PSD[j] = 2/(fs*S2[j]).
C6_ReturnsCalibration ==
    (pc = "done" /\ Jdes > 1) =>
        /\ Len(ret) = 3
        /\ ret[3] = C
        /\ \A j \in DOMAIN S1 :
              /\ C.PS[j] = FDiv(I(2), FMul(S1[j], S1[j]))
              /\ C.PSD[j] = FDiv(I(2), FMul(I(fs), S2[j]))

\* The squared magnitude of the sum of column k of a.
SegPower(a, k) ==
    LET re == Sum([n \in DOMAIN a |-> a[n][k][1]])
        im == Sum([n \in DOMAIN a |-> a[n][k][2]])
    IN  FAdd(FMul(re, re), FMul(im, im))
\* The mean of it over the columns.
MeanSegPower(a) ==
    FDiv(Sum([k \in DOMAIN a[0] |-> SegPower(a, k)]), I(len(a[0])))

\* C7: after the iteration of index jj, Pxx[jj] is the average over the K
\* segments of the squared magnitude of each segment's own sum of weighted
\* samples.
C7_MeanOfSegmentPowers ==
    (pc = "loop" /\ jj \notin todo /\ jj \in DOMAIN Pxx /\ FGe(K, I(1)) /\ Jdes > 1)
        => Pxx[jj] = MeanSegPower(data)

\* C8: a call with Jdes = 1 returns the single frequency fmin.
C8_SingleBinAtFmin ==
    (Jdes = 1 /\ pc = "done") => ret[2] = [j \in {0} |-> I(fmin)]

\* C9: after detrending, every segment (column) sums to zero.
C9_SegmentsSumToZero ==
    (pc = "dft" /\ Jdes > 1) =>
        \A k \in Arange(K) : Sum([n \in DOMAIN data |-> data[n][k]]) = I(0)

\* The weighted samples of index j, from the inputs and the plan alone.
IterData(j) ==
    Demodulated(Detrended(Gather(j, HopSize(j), SegCount(j))),
                Sinusoid(j), Window(windowfcn, L[j]))

\* The slots after the iterations 0, ..., n-1 in the order of the source.
RECURSIVE SeqLoop(_)
SeqLoop(n) ==
    IF n = 0
    THEN LET z == [j \in 0 .. Jdes - 1 |-> I(0)] IN [Pxx |-> z, S1 |-> z, S2 |-> z]
    ELSE LET p == SeqLoop(n - 1)
             w == Window(windowfcn, L[n - 1])
         IN  [Pxx |-> SlotWrite(p.Pxx, n - 1, Power(IterData(n - 1))),
              S1  |-> SlotWrite(p.S1, n - 1, Sum(w)),
              S2  |-> SlotWrite(p.S2, n - 1, Sum([i \in DOMAIN w |-> FMul(w[i], w[i])]))]

====
